---- MODULE Spec2Model ----
(***************************************************************************)
(* A model of the tietie-bot bridge: the Matrix adapter                    *)
(* (MatrixUserBotClient: whoami fetch with retry, the room.message         *)
(* handler, sendMessage / editMessage and the background media upload)     *)
(* and the Discord link store (setDiscordLink / getDiscordLinks).          *)
(*                                                                         *)
(* Every await of the source is a point where other continuations may run, *)
(* so every action below is the code between two awaits.                   *)
(*                                                                         *)
(* Specifications: SpecRecv (whoami and the room.message handler; FairRecv *)
(* adds that timers come due and requests are answered), SpecSend          *)
(* (sendMessage, editMessage and the uploads), SpecUpload (the sendMessage *)
(* calls with media alone) and SpecStore (the link table).                 *)
(***************************************************************************)
EXTENDS Integers, Sequences, FiniteSets, TLC

\* ------------------------------------------------------------------ bounds
\* getWhoAmI calls the model lets start (the code has no bound).
MaxAttempts == 3
\* room.message events the model lets arrive.
MaxEvents == 2
\* sendMessage / editMessage calls the model lets start.
MaxCalls == 2
\* setDiscordLink calls the model lets start.
MaxLinkCalls == 3
\* setDiscordNickname calls the model lets start.
MaxNickCalls == 2
\* start() and stop() calls the model lets happen.
MaxLifeCalls == 6
\* Media fields one described message carries at most.
MaxMediaKinds == 2

\* --------------------------------------------------------- program constants
\* setTimeout(() => this.fetchBotInfo(), 5000)
RetryDelay == 5000
\* contentLength > 1024 * 1024
MaxMediaSize == 1048576

\* JavaScript's undefined.
None == "undefined"
\* The user id the homeserver's whoami answers with, and another user.
BotUserId == "@bot"
Senders == {BotUserId, "@alice"}
\* The adapters' names (GenericMessage.clientName).
ClientNames == {"matrix", "telegram"}
\* Media source URLs given to sendMessage.
Urls == {"u1", "u2"}
\* Content-Length values a fetch may answer with: the header absent (0), a
\* small resource, one of exactly the ceiling, and one a byte over it.
ContentLengths == {0, 1, MaxMediaSize, MaxMediaSize + 1}
\* Keys of the link table.
ChatIds == {"c1", "c2"}
ChannelIds == {"d1", "d2"}
\* Keys and values of the nickname table.
NickUserIds == {"n1", "n2"}
Nicknames == {"Bob", "Bobby"}
\* No tryDescribeMessage call yet.
NotDescribed == [done |-> FALSE]

VARIABLES
  \* --- MatrixUserBotClient: whoami
  botInfo,      \* this.botInfo: None or the whoami answer (its user_id)
  inflight,     \* getWhoAmI calls awaiting their answer
  timers,       \* pending setTimeout callbacks: their due times, in order
  attempts,     \* history: getWhoAmI calls started
  failures,     \* history: getWhoAmI calls that failed
  now,          \* the clock (ms); it advances when a timer comes due
  \* --- MatrixUserBotClient: room.message handler
  roomEvents,   \* the handler's invocations, in arrival order
  emitted,      \* this.emit(...) calls, in order
  \* --- MatrixUserBotClient: sendMessage / editMessage / uploadMediaAsync
  calls,        \* sendMessage and editMessage invocations, in start order
  tasks,        \* tasks[c]: the background upload (the async IIFE) of call c
  cachedMedia,  \* this.cachedMedia: a function from some Urls to mxc URIs
  creates,      \* history: POST /_matrix/media/v1/create requests issued
  puts,         \* mxc URIs whose upload PUT has completed
  sentEvents,   \* the events the homeserver accepted from bot.sendEvent
  \* --- link store
  linkTable,    \* discord_link_v2: rows in rowid order
  linkCalls,    \* setDiscordLink invocations, in start order
  linksResult,  \* the last getDiscordLinks call: whether any, and its result
  overlapped,   \* history: some setDiscordLink started while another ran
  lastSet,      \* history: chatId -> channel of its latest setDiscordLink
  \* --- nickname store
  nickTable,    \* discord_nick: rows in rowid order
  nickCalls,    \* setDiscordNickname invocations, in start order
  nickResult,   \* the last getDiscordNickname call: its arguments and result,
                \* and (history) the pair's latest nickname at that moment and
                \* whether the calls so far had run one after the other
  nickOverlapped, \* history: some setDiscordNickname started while another ran
  lastNick,     \* history: <<chatId, userId>> -> nickname of its latest call
  \* --- MatrixUserBotClient: start / stop
  botLog,       \* the calls made on this.bot: "start" and "stop", in order
  lifeCalls,    \* history: the start() and stop() calls made on the adapter
  \* --- message describer
  described     \* the last tryDescribeMessage call: its message and outcome

whoVars  == <<botInfo, inflight, timers, attempts, failures, now>>
recvVars == <<roomEvents, emitted>>
sendVars == <<calls, tasks, cachedMedia, creates, puts, sentEvents>>
linkVars == <<linkTable, linkCalls, linksResult, overlapped, lastSet>>
nickVars == <<nickTable, nickCalls, nickResult, nickOverlapped, lastNick>>
lifeVars == <<botLog, lifeCalls>>
descVars == <<described>>
vars == <<whoVars, recvVars, sendVars, linkVars, nickVars, lifeVars, descVars>>

\* Indices of a sequence.
Idx(s) == 1..Len(s)

Init ==
  /\ botInfo = None
  /\ inflight = 1        \* the constructor calls fetchBotInfo()
  /\ timers = <<>>
  /\ attempts = 1
  /\ failures = 0
  /\ now = 0
  /\ roomEvents = <<>>
  /\ emitted = <<>>
  /\ calls = <<>>
  /\ tasks = <<>>
  /\ cachedMedia = [u \in {} |-> None]  \* new Map()
  /\ creates = 0
  /\ puts = {}
  /\ sentEvents = {}
  /\ linkTable = <<>>
  /\ linkCalls = <<>>
  /\ linksResult = [read |-> FALSE, rows |-> <<>>]
  /\ overlapped = FALSE
  /\ lastSet = [c \in ChatIds |-> None]
  /\ nickTable = <<>>
  /\ nickCalls = <<>>
  /\ nickResult = [read |-> FALSE, chatId |-> None, userId |-> None,
                   nickname |-> None, expected |-> None, quiet |-> FALSE]
  /\ nickOverlapped = FALSE
  /\ lastNick = [k \in ChatIds \X NickUserIds |-> None]
  /\ botLog = <<>>
  /\ lifeCalls = <<>>
  /\ described = NotDescribed

\* ================================================================= whoami
\* The timers a failed fetchBotInfo leaves pending, given the pending ones:
\* the catch block's single setTimeout.
RetrySchedule_noRetry(pending, t) == pending
RetrySchedule(pending, t) == Append(pending, t + RetryDelay)

\* this.botInfo = await this.bot.getWhoAmI(): the answer arrives.
WhoAmIOk ==
  /\ inflight > 0
  /\ inflight' = inflight - 1
  /\ botInfo' = BotUserId
  /\ UNCHANGED <<timers, attempts, failures, now>>
  /\ UNCHANGED <<recvVars, sendVars, linkVars, nickVars, lifeVars, descVars>>

\* getWhoAmI rejects: the catch block schedules the retry.
WhoAmIFail ==
  /\ inflight > 0
  /\ attempts < MaxAttempts
  /\ inflight' = inflight - 1
  /\ failures' = failures + 1
  /\ timers' = RetrySchedule(timers, now)
  /\ UNCHANGED <<botInfo, attempts, now>>
  /\ UNCHANGED <<recvVars, sendVars, linkVars, nickVars, lifeVars, descVars>>

\* The earliest timer comes due: () => this.fetchBotInfo().
TimerFire ==
  /\ timers # <<>>
  /\ now' = IF Head(timers) > now THEN Head(timers) ELSE now
  /\ timers' = Tail(timers)
  /\ inflight' = inflight + 1
  /\ attempts' = attempts + 1
  /\ UNCHANGED <<botInfo, failures>>
  /\ UNCHANGED <<recvVars, sendVars, linkVars, nickVars, lifeVars, descVars>>

\* ===================================================== room.message handler
\* this.botInfo?.user_id
UserIdOf(info) == info

\* transformMessage throws: the profile lookup rejected, or an edit has no
\* m.relates_to to take the event_id from.
TransformThrows(ev, profileOk) ==
  \/ ~profileOk
  \/ (ev.newContent /\ ~ev.relates)

\* The names of the events the handler emits for a transformed message.
EmittedNames_both(ev, info) ==
  IF ev.sender = UserIdOf(info) THEN <<>> ELSE <<"edit-message", "message">>
EmittedNames(ev, info) ==
  IF ev.sender = UserIdOf(info)
  THEN <<>>
  ELSE <<IF ev.newContent THEN "edit-message" ELSE "message">>

\* The emit records of event i.
EmitRecords(i, ev, names) ==
  [k \in Idx(names) |-> [ev |-> i, name |-> names[k], userId |-> ev.sender]]

\* bot.on('room.message', ...): the handler starts and transformMessage
\* awaits getUserProfile.
RoomMessage(sender, newContent, relates) ==
  /\ Len(roomEvents) < MaxEvents
  /\ roomEvents' = Append(roomEvents,
       [sender |-> sender, newContent |-> newContent, relates |-> relates,
        pc |-> "transform", sawInfo |-> None])
  /\ UNCHANGED emitted
  /\ UNCHANGED <<whoVars, sendVars, linkVars, nickVars, lifeVars, descVars>>

\* getUserProfile resolves; the handler runs to its end.
ProfileResolved(i) ==
  /\ i \in Idx(roomEvents)
  /\ roomEvents[i].pc = "transform"
  /\ IF TransformThrows(roomEvents[i], TRUE)
     THEN /\ roomEvents' = [roomEvents EXCEPT ![i].pc = "threw"]
          /\ UNCHANGED emitted
     ELSE /\ roomEvents' = [roomEvents EXCEPT ![i].pc = "done",
                                              ![i].sawInfo = botInfo]
          /\ emitted' = emitted \o
               EmitRecords(i, roomEvents[i], EmittedNames(roomEvents[i], botInfo))
  /\ UNCHANGED <<whoVars, sendVars, linkVars, nickVars, lifeVars, descVars>>

\* getUserProfile rejects; the handler's promise rejects, nothing is emitted.
ProfileRejected(i) ==
  /\ i \in Idx(roomEvents)
  /\ roomEvents[i].pc = "transform"
  /\ TransformThrows(roomEvents[i], FALSE)
  /\ roomEvents' = [roomEvents EXCEPT ![i].pc = "threw"]
  /\ UNCHANGED emitted
  /\ UNCHANGED <<whoVars, sendVars, linkVars, nickVars, lifeVars, descVars>>

NextRecv ==
  \/ WhoAmIOk
  \/ WhoAmIFail
  \/ TimerFire
  \/ \E s \in Senders, nc \in BOOLEAN, rel \in BOOLEAN : RoomMessage(s, nc, rel)
  \/ \E i \in 1..MaxEvents : ProfileResolved(i)
  \/ \E i \in 1..MaxEvents : ProfileRejected(i)
SpecRecv == Init /\ [][NextRecv]_vars
\* A pending timer comes due, and a request in flight is answered.
FairRecv ==
  /\ SpecRecv
  /\ WF_vars(TimerFire)
  /\ WF_vars(WhoAmIOk \/ WhoAmIFail)

\* ======================================= sendMessage / editMessage / upload
\* cachedMedia.has(url) ? cachedMedia.get(url) : (miss)
CacheLookup_inflight(cache, url) ==
  IF url \in DOMAIN cache THEN cache[url]
  ELSE IF \E t \in Idx(tasks) : tasks[t].stage # "none" /\ tasks[t].url = url
       THEN tasks[CHOOSE t \in Idx(tasks) :
                    tasks[t].stage # "none" /\ tasks[t].url = url].mxc
       ELSE None
CacheLookup(cache, url) == IF url \in DOMAIN cache THEN cache[url] ELSE None

\* cachedMedia.set(url, mxcUri)
CacheSet(cache, url, mxc) ==
  [u \in DOMAIN cache \cup {url} |-> IF u = url THEN mxc ELSE cache[u]]

\* !contentLength || contentLength > 1024 * 1024
TooLarge_doubled(len) == len = 0 \/ len > 2 * MaxMediaSize
TooLarge(len) == len = 0 \/ len > MaxMediaSize

\* A call's task before the create request has answered, and for a call that
\* spawns none.
NoTask == [url |-> None, mxc |-> None, stage |-> "none", len |-> -1]
\* Stages a task never leaves.
Settled == {"done", "abandoned", "failed"}

\* The promise uploadMediaAsync returned to call c is resolved: it resolves
\* with the mxc URI once that is known (return mxcUri), the async IIFE is not
\* awaited.
UploadMediaAsyncResolved_awaitsTask(c) ==
  \/ calls[c].mediaUrl = None
  \/ /\ calls[c].mxc # None
     /\ tasks[c].stage \in Settled \cup {"none"}
UploadMediaAsyncResolved(c) ==
  calls[c].mediaUrl = None \/ calls[c].mxc # None

\* The content_uri the homeserver answers the create request of call c with,
\* and the event id it answers the sendEvent of call c with.
MxcUri(c) == "mxc://hs/" \o ToString(c)
EventId(c) == "$" \o ToString(c)

\* What sendMessage returns after sendEvent answered messageId: <<the
\* GenericMessage>>, or <<>> when reading this.botInfo!.user_id throws.
SendMessageReturn(msg, messageId, info, t) ==
  IF info = None
  THEN <<>>
  ELSE <<[clientName |-> "matrix", messageId |-> messageId,
          userId |-> UserIdOf(info), userName |-> UserIdOf(info),
          mediaUrl |-> msg.mediaUrl, unixDate |-> t \div 1000]>>

\* sendMessage(message) up to its first await: uploadMediaAsync looks the URL
\* up and, on a miss, issues the media-create request.
SendMessage(clientName, media) ==
  /\ Len(calls) < MaxCalls
  /\ LET cached == IF media = None THEN None ELSE CacheLookup(cachedMedia, media)
         miss == media # None /\ cached = None
     IN /\ calls' = Append(calls,
             [op |-> "send", clientName |-> clientName, mediaUrl |-> media,
              pc |-> IF miss THEN "create" ELSE "sendEvent",
              mxc |-> cached, created |-> miss,
              uploadedAtStart |->
                \E t \in Idx(tasks) : tasks[t].url = media /\ tasks[t].stage = "done",
              result |-> None, ret |-> <<>>])
        /\ creates' = IF miss THEN creates + 1 ELSE creates
  /\ tasks' = Append(tasks, NoTask)
  /\ UNCHANGED <<cachedMedia, puts, sentEvents>>
  /\ UNCHANGED <<whoVars, recvVars, linkVars, nickVars, lifeVars, descVars>>

\* editMessage(message) up to its await of sendEvent.
EditMessage(clientName) ==
  /\ Len(calls) < MaxCalls
  /\ calls' = Append(calls,
       [op |-> "edit", clientName |-> clientName, mediaUrl |-> None,
        pc |-> "sendEvent", mxc |-> None, created |-> FALSE,
        uploadedAtStart |-> FALSE, result |-> None, ret |-> <<>>])
  /\ tasks' = Append(tasks, NoTask)
  /\ UNCHANGED <<cachedMedia, creates, puts, sentEvents>>
  /\ UNCHANGED <<whoVars, recvVars, linkVars, nickVars, lifeVars, descVars>>

\* The media-create request answers with a fresh content_uri: the async IIFE
\* starts its fetch and uploadMediaAsync returns the URI.
CreateOk(c) ==
  /\ c \in Idx(calls)
  /\ calls[c].pc = "create"
  /\ tasks' = [tasks EXCEPT ![c] =
       [url |-> calls[c].mediaUrl, mxc |-> MxcUri(c),
        stage |-> "fetching", len |-> -1]]  \* len: not fetched yet
  /\ calls' = [calls EXCEPT ![c].pc = "sendEvent", ![c].mxc = MxcUri(c)]
  /\ UNCHANGED <<cachedMedia, creates, puts, sentEvents>>
  /\ UNCHANGED <<whoVars, recvVars, linkVars, nickVars, lifeVars, descVars>>

\* The media-create request rejects: sendMessage rejects.
CreateFail(c) ==
  /\ c \in Idx(calls)
  /\ calls[c].pc = "create"
  /\ calls' = [calls EXCEPT ![c].pc = "done", ![c].result = "threw"]
  /\ UNCHANGED <<tasks, cachedMedia, creates, puts, sentEvents>>
  /\ UNCHANGED <<whoVars, recvVars, linkVars, nickVars, lifeVars, descVars>>

\* bot.sendEvent answers with the event id; sendMessage builds its result,
\* editMessage returns.
SendEventOk(c) ==
  /\ c \in Idx(calls)
  /\ calls[c].pc = "sendEvent"
  /\ UploadMediaAsyncResolved(c)
  /\ LET id == EventId(c)
         ret == IF calls[c].op = "send"
                THEN SendMessageReturn(calls[c], id, botInfo, now)
                ELSE <<>>
     IN /\ sentEvents' = sentEvents \cup
             {[id |-> id, call |-> c, op |-> calls[c].op, url |-> calls[c].mxc]}
        /\ calls' = [calls EXCEPT
             ![c].pc = "done",
             ![c].ret = ret,
             ![c].result = IF calls[c].op = "send" /\ ret = <<>>
                           THEN "threw" ELSE "returned"]
  /\ UNCHANGED <<tasks, cachedMedia, creates, puts>>
  /\ UNCHANGED <<whoVars, recvVars, linkVars, nickVars, lifeVars, descVars>>

\* bot.sendEvent rejects: the call rejects, nothing was sent.
SendEventFail(c) ==
  /\ c \in Idx(calls)
  /\ calls[c].pc = "sendEvent"
  /\ UploadMediaAsyncResolved(c)
  /\ calls' = [calls EXCEPT ![c].pc = "done", ![c].result = "threw"]
  /\ UNCHANGED <<tasks, cachedMedia, creates, puts, sentEvents>>
  /\ UNCHANGED <<whoVars, recvVars, linkVars, nickVars, lifeVars, descVars>>

\* fetch(url) answers with Content-Length len: the task gives up, or reads
\* the body and issues the upload PUT.
FetchOk(t, len) ==
  /\ t \in Idx(tasks)
  /\ tasks[t].stage = "fetching"
  /\ tasks' = [tasks EXCEPT
       ![t].len = len,
       ![t].stage = IF TooLarge(len) THEN "abandoned" ELSE "uploading"]
  /\ UNCHANGED <<calls, cachedMedia, creates, puts, sentEvents>>
  /\ UNCHANGED <<whoVars, recvVars, linkVars, nickVars, lifeVars, descVars>>

\* fetch(url) rejects: the task's promise rejects, unobserved.
FetchFail(t) ==
  /\ t \in Idx(tasks)
  /\ tasks[t].stage = "fetching"
  /\ tasks' = [tasks EXCEPT ![t].stage = "failed"]
  /\ UNCHANGED <<calls, cachedMedia, creates, puts, sentEvents>>
  /\ UNCHANGED <<whoVars, recvVars, linkVars, nickVars, lifeVars, descVars>>

\* The upload PUT answers: the cache entry is written.
PutOk(t) ==
  /\ t \in Idx(tasks)
  /\ tasks[t].stage = "uploading"
  /\ tasks' = [tasks EXCEPT ![t].stage = "done"]
  /\ puts' = puts \cup {tasks[t].mxc}
  /\ cachedMedia' = CacheSet(cachedMedia, tasks[t].url, tasks[t].mxc)
  /\ UNCHANGED <<calls, creates, sentEvents>>
  /\ UNCHANGED <<whoVars, recvVars, linkVars, nickVars, lifeVars, descVars>>

\* The upload PUT rejects (or times out after 60 s): the task's promise
\* rejects before the cache is written.
PutFail_cachesAnyway(t) ==
  /\ t \in Idx(tasks)
  /\ tasks[t].stage = "uploading"
  /\ tasks' = [tasks EXCEPT ![t].stage = "failed"]
  /\ cachedMedia' = CacheSet(cachedMedia, tasks[t].url, tasks[t].mxc)
  /\ UNCHANGED <<calls, creates, puts, sentEvents>>
  /\ UNCHANGED <<whoVars, recvVars, linkVars, nickVars, lifeVars, descVars>>
PutFail(t) ==
  /\ t \in Idx(tasks)
  /\ tasks[t].stage = "uploading"
  /\ tasks' = [tasks EXCEPT ![t].stage = "failed"]
  /\ UNCHANGED <<calls, cachedMedia, creates, puts, sentEvents>>
  /\ UNCHANGED <<whoVars, recvVars, linkVars, nickVars, lifeVars, descVars>>

\* sendMessage reads of the whoami fetch only this.botInfo, which its answer
\* sets at any moment; the retries that delay the answer are in NextRecv.
NextSend ==
  \/ WhoAmIOk
  \/ \E cn \in ClientNames, m \in Urls \cup {None} : SendMessage(cn, m)
  \/ \E cn \in ClientNames : EditMessage(cn)
  \/ \E c \in 1..MaxCalls : CreateOk(c)
  \/ \E c \in 1..MaxCalls : CreateFail(c)
  \/ \E c \in 1..MaxCalls : SendEventOk(c)
  \/ \E c \in 1..MaxCalls : SendEventFail(c)
  \/ \E t \in 1..MaxCalls, len \in ContentLengths : FetchOk(t, len)
  \/ \E t \in 1..MaxCalls : FetchFail(t)
  \/ \E t \in 1..MaxCalls : PutOk(t)
  \/ \E t \in 1..MaxCalls : PutFail(t)
SpecSend == Init /\ [][NextSend]_vars

\* The part of NextSend that uploadMediaAsync takes part in: the sendMessage
\* calls that carry media (a call without media and editMessage never reach
\* uploadMediaAsync, the cache or a task).
NextUpload ==
  \/ WhoAmIOk
  \/ \E m \in Urls : SendMessage("matrix", m)
  \/ \E c \in 1..MaxCalls : CreateOk(c)
  \/ \E c \in 1..MaxCalls : CreateFail(c)
  \/ \E c \in 1..MaxCalls : SendEventOk(c)
  \/ \E c \in 1..MaxCalls : SendEventFail(c)
  \/ \E t \in 1..MaxCalls, len \in ContentLengths : FetchOk(t, len)
  \/ \E t \in 1..MaxCalls : FetchFail(t)
  \/ \E t \in 1..MaxCalls : PutOk(t)
  \/ \E t \in 1..MaxCalls : PutFail(t)
SpecUpload == Init /\ [][NextUpload]_vars

\* ============================================================== link store
\* SELECT * FROM discord_link_v2 WHERE chat_id = ? (db.get: the first row).
SelectLink(table, chatId) ==
  \E r \in Idx(table) : table[r].chat_id = chatId

\* UPDATE discord_link_v2 SET discord_channel_id = ? WHERE chat_id = ?
UpdateLink_noWhere(table, discordChannelId, chatId) ==
  [r \in Idx(table) |-> [table[r] EXCEPT !.discord_channel_id = discordChannelId]]
UpdateLink(table, discordChannelId, chatId) ==
  [r \in Idx(table) |->
     IF table[r].chat_id = chatId
     THEN [table[r] EXCEPT !.discord_channel_id = discordChannelId]
     ELSE table[r]]

\* INSERT INTO discord_link_v2 (chat_id, discord_channel_id) VALUES (?, ?):
\* the table declares no key, so the row is always added.
InsertLink(table, chatId, discordChannelId) ==
  Append(table, [chat_id |-> chatId, discord_channel_id |-> discordChannelId])

\* getDiscordLinks: SELECT * and the map over its rows.
GetDiscordLinks(table) ==
  [r \in Idx(table) |->
     [chatId |-> table[r].chat_id, discordChannelId |-> table[r].discord_channel_id]]

\* The setDiscordLink calls that have started and not finished.
RunningLinkCalls == {i \in Idx(linkCalls) : linkCalls[i].pc # "done"}

\* setDiscordLink(chatId, discordChannelId) up to its await of the SELECT.
SetDiscordLink(chatId, discordChannelId) ==
  /\ Len(linkCalls) < MaxLinkCalls
  /\ linkCalls' = Append(linkCalls,
       [chatId |-> chatId, discordChannelId |-> discordChannelId,
        pc |-> "select", exists |-> FALSE])
  /\ overlapped' = (overlapped \/ RunningLinkCalls # {})
  /\ lastSet' = [lastSet EXCEPT ![chatId] = discordChannelId]
  /\ UNCHANGED <<linkTable, linksResult>>
  /\ UNCHANGED <<whoVars, recvVars, sendVars, nickVars, lifeVars, descVars>>

\* The SELECT of call i answers.
LinkSelected(i) ==
  /\ i \in Idx(linkCalls)
  /\ linkCalls[i].pc = "select"
  /\ linkCalls' = [linkCalls EXCEPT
       ![i].pc = "write",
       ![i].exists = SelectLink(linkTable, linkCalls[i].chatId)]
  /\ UNCHANGED <<linkTable, linksResult, overlapped, lastSet>>
  /\ UNCHANGED <<whoVars, recvVars, sendVars, nickVars, lifeVars, descVars>>

\* Call i runs its UPDATE or its INSERT, as its SELECT decided, and returns.
LinkWritten(i) ==
  /\ i \in Idx(linkCalls)
  /\ linkCalls[i].pc = "write"
  /\ linkTable' =
       IF linkCalls[i].exists
       THEN UpdateLink(linkTable, linkCalls[i].discordChannelId, linkCalls[i].chatId)
       ELSE InsertLink(linkTable, linkCalls[i].chatId, linkCalls[i].discordChannelId)
  /\ linkCalls' = [linkCalls EXCEPT ![i].pc = "done"]
  /\ UNCHANGED <<linksResult, overlapped, lastSet>>
  /\ UNCHANGED <<whoVars, recvVars, sendVars, nickVars, lifeVars, descVars>>

\* getDiscordLinks() returns.
LinksRead ==
  /\ linksResult' = [read |-> TRUE, rows |-> GetDiscordLinks(linkTable)]
  /\ UNCHANGED <<linkTable, linkCalls, overlapped, lastSet>>
  /\ UNCHANGED <<whoVars, recvVars, sendVars, nickVars, lifeVars, descVars>>

NextStore ==
  \/ \E c \in ChatIds, d \in ChannelIds : SetDiscordLink(c, d)
  \/ \E i \in 1..MaxLinkCalls : LinkSelected(i)
  \/ \E i \in 1..MaxLinkCalls : LinkWritten(i)
  \/ LinksRead
SpecStore == Init /\ [][NextStore]_vars

\* ------------------------------------------------------------------- C1
\* The rows of the link table for chatId.
LinkRows(table, chatId) == {r \in Idx(table) : table[r].chat_id = chatId}

\* C1: the link table holds at most one row per chatId, whatever the
\* interleaving of the setDiscordLink calls.
C1_AtMostOneRowPerChat ==
  \A c \in ChatIds : Cardinality(LinkRows(linkTable, c)) <= 1

\* ------------------------------------------------------------------ C10
\* The entries getDiscordLinks returned for chatId.
LinkEntries(result, chatId) == {k \in Idx(result) : result[k].chatId = chatId}

\* What getDiscordLinks must return after non-overlapping calls: one entry
\* for each chatId ever set, with its latest channel, and none for the others.
LatestLinks(result) ==
  \A c \in ChatIds :
    IF lastSet[c] = None
    THEN LinkEntries(result, c) = {}
    ELSE /\ Cardinality(LinkEntries(result, c)) = 1
         /\ \A k \in LinkEntries(result, c) : result[k].discordChannelId = lastSet[c]

\* C10: when no two setDiscordLink calls have overlapped and none is running,
\* getDiscordLinks returns exactly one entry for every chatId ever set, with
\* the channel of the latest call for it; and a call's write leaves the rows
\* of every other chatId as they were.
C10_LatestLinkPerChat ==
  /\ []((~overlapped /\ RunningLinkCalls = {}) =>
          LatestLinks(GetDiscordLinks(linkTable)))
  /\ []((~overlapped /\ RunningLinkCalls = {} /\ linksResult.read
          /\ linksResult.rows = GetDiscordLinks(linkTable)) =>
            LatestLinks(linksResult.rows))
  /\ [][\A i \in Idx(linkCalls) :
          (linkCalls[i].pc = "write" /\ linkCalls'[i].pc = "done") =>
            \A r \in Idx(linkTable) :
              linkTable[r].chat_id # linkCalls[i].chatId =>
                linkTable'[r] = linkTable[r]]_vars

\* c1 set twice with different channels, c2 once, one after the other, and
\* getDiscordLinks read since: two entries.
C10_Witness ==
  /\ ~overlapped
  /\ RunningLinkCalls = {}
  /\ Len(linkCalls) = 3
  /\ linkCalls[1].chatId = "c1" /\ linkCalls[1].discordChannelId = "d1"
  /\ linkCalls[2].chatId = "c2"
  /\ linkCalls[3].chatId = "c1" /\ linkCalls[3].discordChannelId = "d2"
  /\ linksResult.read
  /\ linksResult.rows = GetDiscordLinks(linkTable)
  /\ Len(linksResult.rows) = 2

\* ========================================================== nickname store
\* The WHERE clause of the discord_nick statements:
\* chat_id = ? AND user_id = ?
NickMatches_chatOnly(row, chatId, userId) == row.chat_id = chatId
NickMatches(row, chatId, userId) ==
  row.chat_id = chatId /\ row.user_id = userId

\* The rows of the nickname table for a pair, in rowid order.
NickRows(table, chatId, userId) ==
  {r \in Idx(table) : NickMatches(table[r], chatId, userId)}

\* SELECT * FROM discord_nick WHERE ... (db.get: the first row, or undefined).
SelectNick(table, chatId, userId) == NickRows(table, chatId, userId) # {}

\* UPDATE discord_nick SET nickname = ? WHERE chat_id = ? AND user_id = ?
UpdateNick(table, nickname, chatId, userId) ==
  [r \in Idx(table) |->
     IF NickMatches(table[r], chatId, userId)
     THEN [table[r] EXCEPT !.nickname = nickname]
     ELSE table[r]]

\* INSERT INTO discord_nick (chat_id, user_id, nickname) VALUES (?, ?, ?):
\* the table declares no key, so the row is always added.
InsertNick(table, chatId, userId, nickname) ==
  Append(table, [chat_id |-> chatId, user_id |-> userId, nickname |-> nickname])

\* getDiscordNickname: result && result.nickname, result the first row found.
GetDiscordNickname_noWhere(table, chatId, userId) ==
  IF table = <<>> THEN None ELSE table[1].nickname
GetDiscordNickname(table, chatId, userId) ==
  LET rows == NickRows(table, chatId, userId)
  IN IF rows = {} THEN None
     ELSE table[CHOOSE r \in rows : \A q \in rows : r <= q].nickname

\* The setDiscordNickname calls that have started and not finished.
RunningNickCalls == {i \in Idx(nickCalls) : nickCalls[i].pc # "done"}

\* setDiscordNickname(chatId, userId, nickname) up to its await of the SELECT.
SetDiscordNickname(chatId, userId, nickname) ==
  /\ Len(nickCalls) < MaxNickCalls
  /\ nickCalls' = Append(nickCalls,
       [chatId |-> chatId, userId |-> userId, nickname |-> nickname,
        pc |-> "select", exists |-> FALSE])
  /\ nickOverlapped' = (nickOverlapped \/ RunningNickCalls # {})
  /\ lastNick' = [lastNick EXCEPT ![<<chatId, userId>>] = nickname]
  /\ UNCHANGED <<nickTable, nickResult>>
  /\ UNCHANGED <<whoVars, recvVars, sendVars, linkVars, lifeVars, descVars>>

\* The SELECT of call i answers.
NickSelected(i) ==
  /\ i \in Idx(nickCalls)
  /\ nickCalls[i].pc = "select"
  /\ nickCalls' = [nickCalls EXCEPT
       ![i].pc = "write",
       ![i].exists = SelectNick(nickTable, nickCalls[i].chatId, nickCalls[i].userId)]
  /\ UNCHANGED <<nickTable, nickResult, nickOverlapped, lastNick>>
  /\ UNCHANGED <<whoVars, recvVars, sendVars, linkVars, lifeVars, descVars>>

\* Call i runs its UPDATE or its INSERT, as its SELECT decided, and returns.
NickWritten(i) ==
  /\ i \in Idx(nickCalls)
  /\ nickCalls[i].pc = "write"
  /\ nickTable' =
       IF nickCalls[i].exists
       THEN UpdateNick(nickTable, nickCalls[i].nickname,
                       nickCalls[i].chatId, nickCalls[i].userId)
       ELSE InsertNick(nickTable, nickCalls[i].chatId, nickCalls[i].userId,
                       nickCalls[i].nickname)
  /\ nickCalls' = [nickCalls EXCEPT ![i].pc = "done"]
  /\ UNCHANGED <<nickResult, nickOverlapped, lastNick>>
  /\ UNCHANGED <<whoVars, recvVars, sendVars, linkVars, lifeVars, descVars>>

\* getDiscordNickname(chatId, userId) returns.
NickRead(chatId, userId) ==
  /\ nickResult' =
       [read |-> TRUE, chatId |-> chatId, userId |-> userId,
        nickname |-> GetDiscordNickname(nickTable, chatId, userId),
        expected |-> lastNick[<<chatId, userId>>],
        quiet |-> (~nickOverlapped /\ RunningNickCalls = {})]
  /\ UNCHANGED <<nickTable, nickCalls, nickOverlapped, lastNick>>
  /\ UNCHANGED <<whoVars, recvVars, sendVars, linkVars, lifeVars, descVars>>

NextNick ==
  \/ \E c \in ChatIds, u \in NickUserIds, n \in Nicknames : SetDiscordNickname(c, u, n)
  \/ \E i \in 1..MaxNickCalls : NickSelected(i)
  \/ \E i \in 1..MaxNickCalls : NickWritten(i)
  \/ \E c \in ChatIds, u \in NickUserIds : NickRead(c, u)
SpecNick == Init /\ [][NextNick]_vars

\* ============================================================= start / stop
\* start(): this.bot.start(), whatever the adapter's state.
Start ==
  /\ Len(lifeCalls) < MaxLifeCalls
  /\ lifeCalls' = Append(lifeCalls, "start")
  /\ botLog' = Append(botLog, "start")
  /\ UNCHANGED <<whoVars, recvVars, sendVars, linkVars, nickVars, descVars>>

\* stop(): this.bot.stop(), whatever the adapter's state.
Stop ==
  /\ Len(lifeCalls) < MaxLifeCalls
  /\ lifeCalls' = Append(lifeCalls, "stop")
  /\ botLog' = Append(botLog, "stop")
  /\ UNCHANGED <<whoVars, recvVars, sendVars, linkVars, nickVars, descVars>>

NextLife == Start \/ Stop
SpecLife == Init /\ [][NextLife]_vars

\* ======================================================= tryDescribeMessage
\* Strings are the program's strings, with two transliterations: Han labels
\* are written in pinyin capitals, and the full-width colon that ends most
\* of them is written "~". The labels that end in the ASCII ": " keep it.

\* s has sub at position i.
StartsAt(s, sub, i) ==
  /\ i + Len(sub) - 1 <= Len(s)
  /\ SubSeq(s, i, i + Len(sub) - 1) = sub

\* String.prototype.indexOf, one-based, 0 when sub does not occur from i on.
RECURSIVE IndexOf(_, _, _)
IndexOf(s, sub, i) ==
  IF i + Len(sub) - 1 > Len(s) THEN 0
  ELSE IF StartsAt(s, sub, i) THEN i
  ELSE IndexOf(s, sub, i + 1)

\* String.prototype.includes
Includes(s, sub) == IndexOf(s, sub, 1) > 0

\* The variant of SplitFirst that cuts at the LAST separator.
SplitFirst_atLast(s, sep) ==
  LET ks == {k \in 1..Len(s) : StartsAt(s, sep, k)}
  IN IF ks = {} THEN s
     ELSE SubSeq(s, 1, (CHOOSE k \in ks : \A j \in ks : j <= k) - 1)
\* text.split(sep)[0]: the part before the first separator, the whole
\* string when there is none.
SplitFirst(s, sep) ==
  LET k == IndexOf(s, sep, 1)
  IN IF k = 0 THEN s ELSE SubSeq(s, 1, k - 1)

\* String.prototype.trim (the strings here hold no white space but " ").
RECURSIVE TrimStart(_)
TrimStart(s) ==
  IF Len(s) > 0 /\ SubSeq(s, 1, 1) = " " THEN TrimStart(SubSeq(s, 2, Len(s)))
  ELSE s
RECURSIVE TrimEnd(_)
TrimEnd(s) ==
  IF Len(s) > 0 /\ SubSeq(s, Len(s), Len(s)) = " "
  THEN TrimEnd(SubSeq(s, 1, Len(s) - 1))
  ELSE s
Trim(s) == TrimEnd(TrimStart(s))

\* x || '' on an optional string.
OrEmpty(x) == IF x = None THEN "" ELSE x
\* ${x} in a template literal: undefined is spelled out.
Interpolate(x) == IF x = None THEN "undefined" ELSE x
\* Array.prototype.join(''): undefined elements add nothing.
RECURSIVE Join(_)
Join(parts) ==
  IF parts = <<>> THEN ""
  ELSE OrEmpty(Head(parts)) \o Join(Tail(parts))

\* bot.botInfo.username
BotUsername == "tietie_bot"
\* Telegram users: a person with both names, the bot, a person with neither
\* name nor username, the author a message is forwarded from, an inline bot.
Alice == [first_name |-> "Alice", last_name |-> "Liddell", username |-> "alice"]
TheBot == [first_name |-> "Tietie", last_name |-> None, username |-> BotUsername]
Anon == [first_name |-> None, last_name |-> None, username |-> None]
Carol == [first_name |-> "Carol", last_name |-> None, username |-> "carol"]
GifBot == [first_name |-> "Gif", last_name |-> None, username |-> "gif"]
\* `message.from ?? {}`: the user with no field.
NoUser == Anon

\* formatUser(user): the trimmed "first last", or the username.
FormatUser(user) ==
  LET name == Trim(OrEmpty(user.first_name) \o " " \o OrEmpty(user.last_name))
  IN IF name # "" THEN name ELSE user.username

\* tryExtractUserFromMessage(m) throws: m.from is the bot and m has no text,
\* so that m.text.includes is a call on undefined.
ExtractThrows(m) ==
  /\ m.hasFrom
  /\ m.from.username = BotUsername
  /\ m.text = None

\* tryExtractUserFromMessage(m), when it does not throw.
TryExtractUserFromMessage(m) ==
  IF ~m.hasFrom THEN ""
  ELSE IF m.from.username = BotUsername /\ Includes(m.text, ": ")
       THEN SplitFirst(m.text, ": ")
       ELSE FormatUser(m.from)

\* tryDescribe(type, descriptor): nothing when the message has no such
\* field; a string descriptor and the result of an async descriptor are put
\* in brackets with a space after; the result of a synchronous descriptor is
\* returned as it is.
TryDescribe(present, kind, value) ==
  IF ~present THEN ""
  ELSE IF kind = "string" THEN "[" \o value \o "] "
  ELSE IF kind = "sync" THEN value
  ELSE "[" \o value \o "] "

\* The media fields tryDescribe is asked about, in the order of the array.
MediaKinds ==
  <<"audio", "document", "animation", "photo", "sticker", "video",
    "video_note", "voice", "contact", "dice", "game", "poll", "location",
    "venue">>
\* The values of the media fields the descriptors read.
Voice == [duration |-> 7]
Contact == [first_name |-> "Ann", last_name |-> None]
Dice == [emoji |-> "*", value |-> 3]
Poll == [question |-> "Q?"]
Location == [latitude |-> 1, longitude |-> 2]
Venue == [title |-> "Cafe"]

\* What the descriptor of a media kind is and what it yields for message m.
MediaDescriptor(kind, m) ==
  CASE kind = "audio" -> <<"string", "YINPIN">>
    [] kind = "document" ->
         <<"sync", "WENJIAN~" \o
                   (IF m.file_name = None THEN "WEIZHIWENJIAN" ELSE m.file_name)>>
    [] kind = "animation" -> <<"string", "GIF">>
    [] kind = "photo" -> <<"string", "TUPIAN">>
    [] kind = "sticker" ->
         <<"sync", "TIEZHI~" \o
                   (IF m.set_name = None THEN "WUTIEZHIBAO" ELSE m.set_name)>>
    [] kind = "video" -> <<"string", "SHIPIN">>
    [] kind = "video_note" -> <<"string", "JISHISHIPIN">>
    [] kind = "voice" -> <<"sync", "YUYIN~" \o ToString(Voice.duration) \o "s">>
    [] kind = "contact" ->
         <<"sync", "LIANXIREN: " \o
                   Trim(Contact.first_name \o " " \o OrEmpty(Contact.last_name))>>
    [] kind = "dice" ->
         <<"sync", "SHAIZI~" \o Dice.emoji \o " - ZHICHULE " \o
                   ToString(Dice.value) \o " DIAN">>
    [] kind = "game" -> <<"string", "XIAOYOUXI">>
    [] kind = "poll" -> <<"sync", "TOUPIAO~" \o Poll.question>>
    [] kind = "location" ->
         <<"sync", "WEIZHI: " \o ToString(Location.latitude) \o "," \o
                   ToString(Location.longitude)>>
    [] kind = "venue" -> <<"sync", "WEIZHI: " \o Venue.title>>

\* tryDescribe for the i-th media kind.
MediaPart(i, m) ==
  LET d == MediaDescriptor(MediaKinds[i], m)
  IN TryDescribe(MediaKinds[i] \in m.kinds, d[1], d[2])

\* The array tryDescribeMessage joins.
Parts(m) ==
  <<FormatUser(IF m.hasFrom THEN m.from ELSE NoUser),
    ": ",
    TryDescribe(m.hasForward, "async",
                "ZHUANFAZI~" \o Interpolate(TryExtractUserFromMessage(m))),
    TryDescribe(m.hasReply, "async",
                "HUIFUGEI~" \o
                Interpolate(TryExtractUserFromMessage(m.reply_to_message))),
    TryDescribe(m.hasVia, "async",
                "FASONGZI~" \o Interpolate(FormatUser(m.via_bot)))>>
  \o [i \in 1..Len(MediaKinds) |-> MediaPart(i, m)]
  \o <<IF m.text # None THEN m.text
       ELSE IF m.caption # None THEN m.caption
       ELSE "">>

\* tryDescribeMessage(m) rejects: one of its two tryExtractUserFromMessage
\* calls throws.
DescribeThrows(m) ==
  \/ m.hasForward /\ ExtractThrows(m)
  \/ m.hasReply /\ ExtractThrows(m.reply_to_message)

\* The outcome of tryDescribeMessage(m).
TryDescribeMessage(m) ==
  IF DescribeThrows(m)
  THEN [done |-> TRUE, msg |-> m, threw |-> TRUE,
        parts |-> <<>>, joined |-> "", out |-> ""]
  ELSE [done |-> TRUE, msg |-> m, threw |-> FALSE,
        parts |-> Parts(m), joined |-> Join(Parts(m)),
        out |-> Trim(Join(Parts(m)))]

\* ---- the messages tryDescribeMessage is called with
FromOptions ==
  {<<FALSE, NoUser>>} \cup {<<TRUE, u>> : u \in {Alice, TheBot, Anon}}
\* <<text, caption>>
BodyOptions ==
  {<<"hi", None>>, <<"Alice: hello", None>>, <<None, "cap">>, <<None, None>>}
ForwardOptions == {<<FALSE, NoUser>>, <<TRUE, Carol>>}
\* The replied message: none; one of the bot's, without text, with a text
\* that holds no ": ", one and two of them; one of a person's; one without
\* sender.
NoReply == [hasFrom |-> FALSE, from |-> NoUser, text |-> None]
ReplyOptions ==
  {<<FALSE, NoReply>>} \cup
  {<<TRUE, [hasFrom |-> TRUE, from |-> TheBot, text |-> t]>> :
     t \in {None, "hi", "Alice: hello", "A: b: c"}} \cup
  {<<TRUE, [hasFrom |-> TRUE, from |-> Alice, text |-> t]>> :
     t \in {"hi", "Bob: hello"}} \cup
  {<<TRUE, [hasFrom |-> FALSE, from |-> NoUser, text |-> "hi"]>>}
KindSets ==
  {s \in SUBSET {MediaKinds[i] : i \in 1..Len(MediaKinds)} :
     Cardinality(s) <= MaxMediaKinds}
\* file_name and set_name are fields of the document and of the sticker.
MediaOptions ==
  {<<ks, fn, sn>> : ks \in KindSets, fn \in {None}, sn \in {None}} \cup
  {<<ks, "a.pdf", None>> : ks \in {s \in KindSets : "document" \in s}} \cup
  {<<ks, None, "pack">> : ks \in {s \in KindSets : "sticker" \in s}}
\* The message made of one option of each kind.
Message(f, b, fw, r, v, md) ==
  [hasFrom |-> f[1], from |-> f[2], text |-> b[1], caption |-> b[2],
   hasForward |-> fw[1], forward_from |-> fw[2],
   hasReply |-> r[1], reply_to_message |-> r[2],
   hasVia |-> v, via_bot |-> IF v THEN GifBot ELSE NoUser,
   kinds |-> md[1], file_name |-> md[2], set_name |-> md[3]]

\* One call of tryDescribeMessage, on any message.
DescribeMessage ==
  /\ ~described.done
  /\ \E f \in FromOptions, b \in BodyOptions, fw \in ForwardOptions,
        r \in ReplyOptions, v \in BOOLEAN, md \in MediaOptions :
       described' = TryDescribeMessage(Message(f, b, fw, r, v, md))
  /\ UNCHANGED <<whoVars, recvVars, sendVars, linkVars, nickVars, lifeVars>>

NextDescribe == DescribeMessage
SpecDescribe == Init /\ [][NextDescribe]_vars

\* ------------------------------------------------------------------ C14
\* The calls of log that change the adapter's state: a call repeating the one
\* before it is dropped.
RECURSIVE Effective(_)
Effective(log) ==
  IF Len(log) <= 1 THEN log
  ELSE LET rest == Effective(SubSeq(log, 1, Len(log) - 1))
       IN IF log[Len(log)] = log[Len(log) - 1]
          THEN rest
          ELSE Append(rest, log[Len(log)])

\* C14: the underlying client is started and stopped only by the calls that
\* change the adapter's state: start() on a started adapter and stop() on a
\* stopped one make no call on it.
C14_LifecycleIdempotent == botLog = Effective(lifeCalls)

\* ------------------------------------------------------------------ C11
\* C11: the nickname table holds at most one row per (chatId, userId),
\* whatever the interleaving of the setDiscordNickname calls.
C11_AtMostOneRowPerPair ==
  \A c \in ChatIds, u \in NickUserIds :
    Cardinality({r \in Idx(nickTable) :
                  nickTable[r].chat_id = c /\ nickTable[r].user_id = u}) <= 1

\* ------------------------------------------------------------------ C12
\* C12: after setDiscordNickname calls that ran one after the other to
\* completion, getDiscordNickname returns for a pair that was set the
\* nickname of the latest call for that pair, whatever was set for other
\* pairs.
C12_LatestNickname ==
  /\ (nickResult.read /\ nickResult.quiet /\ nickResult.expected # None) =>
       nickResult.nickname = nickResult.expected
  /\ (~nickOverlapped /\ RunningNickCalls = {}) =>
       \A c \in ChatIds, u \in NickUserIds :
         lastNick[<<c, u>>] # None =>
           GetDiscordNickname(nickTable, c, u) = lastNick[<<c, u>>]

\* 'Bob' then 'Bobby' set for one pair, and 'Bobby' read back.
C12_Witness ==
  /\ ~nickOverlapped
  /\ Len(nickCalls) = 2
  /\ nickCalls[1].pc = "done" /\ nickCalls[2].pc = "done"
  /\ nickCalls[1].chatId = nickCalls[2].chatId
  /\ nickCalls[1].userId = nickCalls[2].userId
  /\ nickCalls[1].nickname = "Bob" /\ nickCalls[2].nickname = "Bobby"
  /\ nickResult.read /\ nickResult.quiet
  /\ nickResult.chatId = nickCalls[2].chatId
  /\ nickResult.userId = nickCalls[2].userId
  /\ nickResult.nickname = "Bobby"

\* ------------------------------------------------------------------ C13
\* C13: getDiscordNickname for a pair no setDiscordNickname call was made
\* for returns undefined, whatever rows other pairs have, and the call
\* changes neither table.
C13_AbsentForUnsetPair ==
  /\ [](nickResult.read /\ nickResult.expected = None =>
          nickResult.nickname = None)
  /\ [][nickResult' # nickResult => UNCHANGED <<nickTable, linkTable>>]_vars

\* undefined read for a pair never set while the table holds rows of two
\* other pairs.
C13_Witness ==
  /\ nickResult.read
  /\ nickResult.expected = None
  /\ nickResult.nickname = None
  /\ Len(nickTable) = 2
  /\ \E r \in Idx(nickTable) : nickTable[r].chat_id = nickResult.chatId
  /\ \E r \in Idx(nickTable) : nickTable[r].user_id = nickResult.userId

\* ------------------------------------------------------------------- C2
\* The emit calls made for room event i.
EmitsOf(i) == {k \in Idx(emitted) : emitted[k].ev = i}
\* The event name that fits room event ev.
NameFor(ev) == IF ev.newContent THEN "edit-message" ELSE "message"

\* C2, as claimed: every room.message event the handler has transformed has
\* exactly one emitted event, 'edit-message' for an edit and 'message'
\* otherwise.
C2_ExactlyOnePerEvent ==
  \A i \in Idx(roomEvents) :
    roomEvents[i].pc = "done" =>
      /\ Cardinality(EmitsOf(i)) = 1
      /\ \A k \in EmitsOf(i) : emitted[k].name = NameFor(roomEvents[i])

\* C2, amended: a transformed room.message event has no emitted event when
\* its sender is the user id botInfo held when the handler ran, and exactly
\* one otherwise, named 'edit-message' for an edit and 'message' for a new
\* message (so never both); an event whose transform is pending or threw has
\* none.
C2_ExactlyOneUnlessOwn ==
  \A i \in Idx(roomEvents) :
    /\ roomEvents[i].pc = "done" =>
         /\ Cardinality(EmitsOf(i)) =
              (IF roomEvents[i].sender = roomEvents[i].sawInfo THEN 0 ELSE 1)
         /\ \A k \in EmitsOf(i) : emitted[k].name = NameFor(roomEvents[i])
    /\ roomEvents[i].pc # "done" => EmitsOf(i) = {}

\* An own message dropped, and an edit emitted once as 'edit-message'.
C2_Witness ==
  /\ \E i \in Idx(roomEvents) :
       /\ roomEvents[i].pc = "done"
       /\ roomEvents[i].sender = BotUserId
       /\ EmitsOf(i) = {}
  /\ \E j \in Idx(roomEvents) :
       /\ roomEvents[j].pc = "done"
       /\ roomEvents[j].newContent
       /\ \E k \in EmitsOf(j) : emitted[k].name = "edit-message"

\* ------------------------------------------------------------------- C3
\* C3: every key of cachedMedia is the URL of a task that has fetched the
\* resource and completed its upload PUT, and the cached value is the mxc URI
\* that task uploaded to.
C3_CacheOnlyAfterUpload ==
  \A u \in DOMAIN cachedMedia :
    \E c \in Idx(tasks) :
      /\ tasks[c].url = u
      /\ tasks[c].mxc = cachedMedia[u]
      /\ tasks[c].stage = "done"
      /\ tasks[c].len > 0
      /\ tasks[c].mxc \in puts

\* One URL cached after its upload, and an upload whose PUT failed with no
\* entry for its URL.
C3_Witness ==
  /\ DOMAIN cachedMedia # {}
  /\ \E c \in Idx(tasks) :
       /\ tasks[c].stage = "failed"
       /\ tasks[c].len > 0
       /\ tasks[c].url \notin DOMAIN cachedMedia

\* ------------------------------------------------------------------- C4
\* The sendMessage calls that carry media.
MediaCalls == {c \in Idx(calls) : calls[c].op = "send" /\ calls[c].mediaUrl # None}

\* C4: a sendMessage call with media issues its own media-create request
\* exactly when no upload of its URL had completed when it started, and once
\* that request has answered it has its own task for the URL, with an mxc URI
\* no other call's task has; a call that started after an upload of its URL
\* completed issues no request, spawns no task and uses an uploaded URI.
C4_NoSharingOfUploads ==
  /\ creates = Cardinality({c \in Idx(calls) : calls[c].created})
  /\ \A c \in MediaCalls :
       /\ calls[c].created <=> ~calls[c].uploadedAtStart
       /\ (calls[c].created /\ calls[c].mxc # None) =>
            /\ tasks[c].stage # "none"
            /\ tasks[c].url = calls[c].mediaUrl
            /\ tasks[c].mxc = calls[c].mxc
            /\ \A d \in Idx(tasks) \ {c} : tasks[d].mxc # tasks[c].mxc
       /\ ~calls[c].created =>
            /\ tasks[c].stage = "none"
            /\ \E d \in Idx(tasks) :
                 /\ tasks[d].url = calls[c].mediaUrl
                 /\ tasks[d].stage = "done"
                 /\ tasks[d].mxc = calls[c].mxc

\* Two calls for one URL, the second started before the first one's upload
\* finished: two create requests, two tasks.
C4_Witness ==
  /\ Len(calls) = 2
  /\ MediaCalls = {1, 2}
  /\ calls[1].mediaUrl = calls[2].mediaUrl
  /\ creates = 2
  /\ tasks[1].stage = "done"
  /\ tasks[2].stage = "uploading"

\* ------------------------------------------------------------------- C5
\* C5: a sendMessage call with media whose media-create request has answered
\* can send its event at once, whatever the stage of its upload task.
C5_SendNeverWaitsForUpload ==
  \A c \in MediaCalls :
    calls[c].pc = "sendEvent" => ENABLED SendEventOk(c)

\* sendMessage has returned while its upload is still being fetched.
C5_Witness ==
  \E c \in MediaCalls :
    /\ calls[c].result = "returned"
    /\ tasks[c].stage = "fetching"

\* ------------------------------------------------------------------- C6
\* A task that fetched more than the ceiling gave up: no PUT, no cache entry
\* with its URI.
OversizedGaveUp ==
  \A c \in Idx(tasks) :
    tasks[c].len > MaxMediaSize =>
      /\ tasks[c].stage = "abandoned"
      /\ tasks[c].mxc \notin puts
      /\ \A u \in DOMAIN cachedMedia : cachedMedia[u] # tasks[c].mxc

\* C6: a task whose fetch answers with more than 1 MiB is abandoned: it
\* issues no PUT and writes no cache entry, it is never run again, and the
\* step in which it gives up changes no call, so nothing reaches the caller
\* of sendMessage.
C6_OversizedSilentlyAbandoned ==
  /\ []OversizedGaveUp
  /\ [][\A c \in Idx(tasks) :
          tasks[c].stage = "abandoned" => tasks'[c] = tasks[c]]_vars
  /\ [][\A c \in Idx(tasks) :
          (tasks[c].stage = "fetching" /\ tasks'[c].stage = "abandoned") =>
            UNCHANGED <<calls, cachedMedia, creates, puts, sentEvents>>]_vars

\* An oversized resource abandoned, and its sendMessage returned.
C6_Witness ==
  \E c \in MediaCalls :
    /\ tasks[c].len > MaxMediaSize
    /\ tasks[c].stage = "abandoned"
    /\ calls[c].result = "returned"
    /\ \E e \in sentEvents : e.call = c /\ e.url = tasks[c].mxc

\* ------------------------------------------------------------------- C8
\* C8: every sendMessage call whose event the homeserver accepted returned a
\* GenericMessage with that event's id, clientName 'matrix' and a timestamp.
C8_SentImpliesReturned ==
  \A e \in sentEvents :
    e.op = "send" =>
      /\ calls[e.call].result = "returned"
      /\ Len(calls[e.call].ret) = 1
      /\ calls[e.call].ret[1].messageId = e.id
      /\ calls[e.call].ret[1].clientName = "matrix"
      /\ calls[e.call].ret[1].unixDate >= 0

\* ------------------------------------------------------------------- C9
\* C9: every event sent comes from a sendMessage or editMessage call whose
\* message names the Matrix adapter.
C9_OnlyOwnPlatformSent ==
  \A e \in sentEvents : calls[e.call].clientName = "matrix"

\* ------------------------------------------------------------------- C7
\* One chain of attempts: a call in flight, or its retry pending, or done;
\* every failure has its one further attempt, pending or started; a pending
\* retry is due RetryDelay after the failure; nothing is pending or in flight
\* once botInfo is set.
RetryChain ==
  /\ inflight + Len(timers) + (IF botInfo # None THEN 1 ELSE 0) = 1
  /\ attempts + Len(timers) = failures + 1
  /\ \A k \in Idx(timers) : timers[k] = now + RetryDelay
  /\ now = failures * RetryDelay - Len(timers) * RetryDelay

\* C7: every failed getWhoAmI call schedules exactly one further attempt,
\* due the fixed 5000 ms later, whatever the number of failures so far; each
\* scheduled attempt is eventually started; once an attempt has succeeded
\* botInfo stays set and no attempt is started or scheduled any more.
C7_RetryUntilSuccess ==
  /\ []RetryChain
  /\ [][failures' = failures + 1 =>
          /\ Len(timers') = Len(timers) + 1
          /\ timers'[Len(timers')] = now + RetryDelay]_vars
  /\ [][botInfo # None => UNCHANGED whoVars]_vars
  /\ \A k \in 1..(MaxAttempts - 1) : (failures = k) ~> (attempts = k + 1)

\* botInfo set by the attempt that followed two failed ones.
C7_Witness == botInfo # None /\ failures = 2 /\ attempts = 3 /\ now = 2 * RetryDelay

\* ------------------------------------------------------------------ C20
\* C20: no 'message' or 'edit-message' event is emitted for a room event
\* whose sender is the bot's own user id.
C20_NeverEmitsOwn ==
  \A k \in Idx(emitted) : emitted[k].userId # BotUserId

\* ------------------------------------------------------------------ C15
\* C15: tryDescribeMessage never raises, whichever optional fields the
\* message and the messages it references have, a replied or forwarded
\* message of the bot's without text included.
C15_NeverRaises == described.done => ~described.threw

\* ------------------------------------------------------------------ C16
\* The media kinds that left a fragment in the described call's output.
MediaFragments ==
  {i \in 1..Len(MediaKinds) : described.parts[5 + i] # ""}

\* C16: the output holds at most one media-kind fragment, whatever the
\* number of media fields of the message.
C16_AtMostOneMediaFragment ==
  (described.done /\ ~described.threw) => Cardinality(MediaFragments) <= 1

\* ------------------------------------------------------------------ C17
\* C17: for a message with a document, the output holds the fragment
\* "[WENJIAN~<filename>] ", with WEIZHIWENJIAN for an absent filename:
\* bracket, label, bracket, one space.
C17_DocumentFragmentBracketed ==
  (described.done /\ ~described.threw /\ "document" \in described.msg.kinds)
  => Includes(described.joined,
              "[WENJIAN~" \o
              (IF described.msg.file_name = None THEN "WEIZHIWENJIAN"
               ELSE described.msg.file_name) \o "] ")

\* ------------------------------------------------------------------ C18
\* C18: for a message forwarded from a user who is not its sender, the
\* forward fragment "[ZHUANFAZI~...] " carries the name of the user it is
\* forwarded from.
C18_ForwardNamesForwardedFrom ==
  (/\ described.done /\ ~described.threw
   /\ described.msg.hasForward
   /\ described.msg.forward_from # described.msg.from)
  => Includes(described.joined,
              "[ZHUANFAZI~" \o
              Interpolate(FormatUser(described.msg.forward_from)) \o "] ")

\* ------------------------------------------------------------------ C19
\* The name the reply fragment of the described call carries: what stands
\* between "[HUIFUGEI~" and the closing "] ".
ReplyFragment == described.parts[4]
ReplyName ==
  SubSeq(ReplyFragment, Len("[HUIFUGEI~") + 1, Len(ReplyFragment) - 2)

\* C19: in a call that returns, the reply fragment of a message replying
\* to a message with a sender is "[HUIFUGEI~<name>] "; for a replied message
\* of the bot's whose text holds ": ", <name> is the text before its first
\* ": " ("Alice: hello" gives "[HUIFUGEI~Alice] "); for a replied message of
\* another sender, <name> is that sender's formatted name.
C19_ReplyFragmentName ==
  (described.done /\ ~described.threw /\ described.msg.hasReply
   /\ described.msg.reply_to_message.hasFrom)
  => LET r == described.msg.reply_to_message
     IN /\ ReplyFragment = "[HUIFUGEI~" \o ReplyName \o "] "
        /\ Includes(described.joined, ReplyFragment)
        /\ (r.from.username = BotUsername /\ Includes(r.text, ": "))
           => /\ StartsAt(r.text, ReplyName \o ": ", 1)
              /\ ~Includes(ReplyName, ": ")
        /\ (r.from.username = BotUsername /\ r.text = "Alice: hello")
           => ReplyFragment = "[HUIFUGEI~Alice] "
        /\ r.from.username # BotUsername
           => ReplyName = Interpolate(FormatUser(r.from))

\* A returned call on a reply to the bot's "A: b: c": the name is "A".
C19_Witness ==
  /\ described.done /\ ~described.threw /\ described.msg.hasReply
  /\ described.msg.reply_to_message.from = TheBot
  /\ described.msg.reply_to_message.text = "A: b: c"
  /\ ReplyFragment = "[HUIFUGEI~A] "
====
